---- MODULE Spec2Model ----
(***************************************************************************)
(* Possession-sequence pipeline of analytics_cup_analyst:                  *)
(*   - the event segmenter       (src/src/export_sequences.py)             *)
(*   - the frame-set extractor   (src/src/extract_Sequences_ball_...py)    *)
(*   - the tracking resolver     (load_tracking_positions and              *)
(*                                extract_positions_from_dataframe)        *)
(*   - the orientation normalizer (src/src/Positions_Data_converter.py)    *)
(*   - the window extractor      (src/src/Positions_Data_converter.py)     *)
(* Each component has its own specification (SpecSeg, SpecFrames,          *)
(* SpecResolve, SpecNorm, SpecWin); the variables of the other components  *)
(* stay at their idle values.  SpecEnrich is the segmenter followed by     *)
(* enrich() (src/enrich_sequences_with_attacking_direction.py).            *)
(***************************************************************************)
EXTENDS Integers, Sequences, FiniteSets, TLC

VARIABLES
    \* ---- segmenter: export_sequences_for_match ----
    de_match,          \* rows read from the dynamic-events CSV
    filtered_initial,  \* rows after the on_ball_engagement filter and the sort
    idx,               \* next row of filtered_initial the loop will visit (1-based)
    sequences,         \* emitted sequences
    current,           \* the open sequence, or NoSeq for Python's None
    seq_counter,
    seq_ids,
    included_idx,
    off_run_included,
    off_run_excluded,
    seg_pc,            \* "idle" | "load" | "loop" | "done" | "enriched" | "aborted"
    \* ---- frame-set extractor: extract_frame_numbers_from_sequence ----
    fx_sequence,       \* the sequence handed to the extractor
    fx_frames,         \* the list it returned
    fx_pc,             \* "idle" | "call" | "done"
    \* ---- tracking resolver: load_tracking_positions (local file, URL) and
    \*      extract_ball_positions_for_match + extract_positions_from_dataframe ----
    rs_impl,           \* "local" | "url" | "df"
    rs_source_ok,      \* the file exists / the fetch succeeds
    rs_log,            \* the records of the tracking log, in physical order
    rs_wanted,         \* set(wanted_frames)
    rs_results,        \* results: frame -> (x, y, z)
    rs_found,          \* found
    rs_i,              \* next record the scan will read (1-based)
    rs_pc,             \* "idle" | "open" | "scan" | "fill" | "done" | "raised" | "none"
    \* ---- orientation normalizer: normalize_sequence_positions ----
    nz_sequence,       \* the sequence handed to the normalizer
    nz_caller_sequence, \* the caller's dict `sequence` after the call
    nz_result,         \* the sequence it returned
    nz_pc,             \* "idle" | "call" | "done" | "raised"
    nz_again,          \* what the normalizer returned for nz_result
    nz_again_pc,       \* "idle" | "done" | "raised"
    \* ---- window extractor: extract_sequences_with_n_positions ----
    wx_sequences,      \* sequences, as loaded from the positions JSON
    wx_caller_sequences, \* the caller's list `sequences` after the iterations so far
    wx_N,              \* fixed_num_positions
    wx_j,              \* next sequence the loop will visit (1-based)
    wx_normalized_seq, \* normalized_seq of the last iteration
    wx_all_coords,     \* all_coords of the last iteration
    wx_extracted,      \* extracted_sequences
    wx_frame_ranges,   \* frame_ranges
    wx_pc,             \* "idle" | "loop" | "done" | "raised"
    \* ---- export of all matches: extract_ball_coordinates ----
    em_match_ids,      \* match_ids
    em_files,          \* match id -> its <match_id>_sequences_positions.json
    em_N,              \* fixed_num_events
    em_i,              \* next match the loop will visit (1-based)
    em_all_data,       \* all_data
    em_frame_ranges,   \* frame_ranges
    em_pc              \* "idle" | "loop" | "saved" | "none" | "raised"

segVars == <<de_match, filtered_initial, idx, sequences, current, seq_counter,
             seq_ids, included_idx, off_run_included, off_run_excluded, seg_pc>>

fxVars == <<fx_sequence, fx_frames, fx_pc>>

rsVars == <<rs_impl, rs_source_ok, rs_log, rs_wanted, rs_results, rs_found, rs_i, rs_pc>>

nzVars == <<nz_sequence, nz_caller_sequence, nz_result, nz_pc, nz_again, nz_again_pc>>

wxVars == <<wx_sequences, wx_caller_sequences, wx_N, wx_j, wx_normalized_seq, wx_all_coords,
            wx_extracted, wx_frame_ranges, wx_pc>>

emVars == <<em_match_ids, em_files, em_N, em_i, em_all_data, em_frame_ranges, em_pc>>

vars == <<segVars, fxVars, rsVars, nzVars, wxVars, emVars>>

(***************************************************************************)
(* Bounds of the model.                                                    *)
(***************************************************************************)
MaxEvents == 3

MaxFxEvents == 2

MaxLog == 3

MaxNzFrames == 2
\* frames of one sequence handed to the window extractor
MaxWxFrames == 5
\* frames of the two sequences together, when the positions JSON holds two
MaxWxPairFrames == 4

\* matches handed to extract_ball_coordinates: at most MaxMatches
MaxMatches == 2

(***************************************************************************)
(* Segmenter: data.                                                        *)
(***************************************************************************)
Teams == {1, 2}

EventTypes == {"player_possession", "off_ball_run", "on_ball_engagement"}

Sides == {"left_to_right", "right_to_left"}

StartFrames == {1, 2}

\* What one CSV row carries besides its event_id.  team_id is populated in
\* every row; frame_end is frame_start + 1, so frame_start <= frame_end.
\* The attacking_side of an on_ball_engagement row is never read (the row is
\* filtered out before the loop), so one value stands for it.
RowAttrs ==
    {a \in [team_id : Teams, event_type : EventTypes,
            frame_start : StartFrames, attacking_side : Sides] :
        a.event_type = "on_ball_engagement" => a.attacking_side = "left_to_right"}

\* event_id of a row is its position in the file, so it identifies the row.
MakeRows(n, f) ==
    [i \in 1..n |-> [event_id |-> i,
                     team_id |-> f[i].team_id,
                     event_type |-> f[i].event_type,
                     frame_start |-> f[i].frame_start,
                     frame_end |-> f[i].frame_start + 1,
                     attacking_side |-> f[i].attacking_side]]

\* Python's None for `current`.
NoSeq == [sequence_id |-> 0, team_id |-> 0, events |-> <<>>, attacking_side |-> "None"]

(***************************************************************************)
(* Segmenter: the filter and the sort.                                     *)
(***************************************************************************)
KeepEveryRow(row) == TRUE

\* de_match['event_type'] != 'on_ball_engagement'
KeepRow(row) == row.event_type # "on_ball_engagement"

RECURSIVE FilterRows(_)
FilterRows(rows) ==
    IF rows = <<>> THEN <<>>
    ELSE IF KeepRow(Head(rows)) THEN <<Head(rows)>> \o FilterRows(Tail(rows))
         ELSE FilterRows(Tail(rows))

\* the order of sort_values(['frame_start', 'frame_end'])
KeyLess(a, b) ==
    \/ a.frame_start < b.frame_start
    \/ a.frame_start = b.frame_start /\ a.frame_end < b.frame_end

\* place of rows[i] after the (stable) sort
SortRank(rows, i) ==
    1 + Cardinality({j \in 1..Len(rows) :
                        \/ KeyLess(rows[j], rows[i])
                        \/ ~KeyLess(rows[i], rows[j]) /\ j < i})

SortRows(rows) ==
    [p \in 1..Len(rows) |->
        rows[CHOOSE i \in 1..Len(rows) : SortRank(rows, i) = p]]

(***************************************************************************)
(* Segmenter: the pieces of one loop iteration.                            *)
(***************************************************************************)
\* the event dict stored in a sequence (player_id is copied and never read)
MakeEvent(row) ==
    [event_id |-> row.event_id, frame_start |-> row.frame_start,
     frame_end |-> row.frame_end]

NewSequence(counter, row) ==
    [sequence_id |-> counter, team_id |-> row.team_id,
     events |-> <<MakeEvent(row)>>, attacking_side |-> row.attacking_side]

NeverExcluded(row, cur) == FALSE

\* ev_type == 'off_ball_run' and team != current['team_id']
IsExcluded(row, cur) ==
    row.event_type = "off_ball_run" /\ row.team_id # cur.team_id

SameTeamAlways(row, cur) == TRUE

\* team == current['team_id']
SameTeam(row, cur) == row.team_id = cur.team_id

KeepCounter(c) == c

\* seq_counter += 1
NextCounter(c) == c + 1

OffRun(row) == IF row.event_type = "off_ball_run" THEN 1 ELSE 0

DropCurrent(seqs, cur) == seqs

FlushAfterFirst(seqs, cur) == IF cur # NoSeq /\ seqs # <<>> THEN Append(seqs, cur) ELSE seqs

\* if current is not None: sequences.append(current)
FlushCurrent(seqs, cur) == IF cur # NoSeq THEN Append(seqs, cur) ELSE seqs

(***************************************************************************)
(* Segmenter: actions.                                                     *)
(***************************************************************************)
SegIdle ==
    /\ de_match = <<>> /\ filtered_initial = <<>> /\ idx = 1
    /\ sequences = <<>> /\ current = NoSeq /\ seq_counter = 1
    /\ seq_ids = <<>> /\ included_idx = <<>>
    /\ off_run_included = 0 /\ off_run_excluded = 0
    /\ seg_pc = "idle"

FxIdle == fx_sequence = <<>> /\ fx_frames = <<>> /\ fx_pc = "idle"

RsIdle ==
    /\ rs_impl = "local" /\ rs_source_ok = TRUE /\ rs_log = <<>>
    /\ rs_wanted = {} /\ rs_results = <<>> /\ rs_found = {}
    /\ rs_i = 1 /\ rs_pc = "idle"

\* a sequence dict as the normalizer sees it; `normalized` is "absent" while
\* the dict has no such key
NoSequence == [attacking_side |-> "None", positions |-> <<>>, normalized |-> "absent"]

NzIdle ==
    /\ nz_sequence = NoSequence /\ nz_caller_sequence = NoSequence
    /\ nz_result = NoSequence /\ nz_pc = "idle"
    /\ nz_again = NoSequence /\ nz_again_pc = "idle"

WxIdle ==
    /\ wx_sequences = <<>> /\ wx_caller_sequences = <<>> /\ wx_N = 0 /\ wx_j = 0
    /\ wx_normalized_seq = NoSequence /\ wx_all_coords = <<>>
    /\ wx_extracted = <<>> /\ wx_frame_ranges = <<>> /\ wx_pc = "idle"

EmIdle ==
    /\ em_match_ids = <<>> /\ em_files = <<>> /\ em_N = 0 /\ em_i = 0
    /\ em_all_data = <<>> /\ em_frame_ranges = <<>> /\ em_pc = "idle"

SegInit ==
    /\ FxIdle /\ RsIdle /\ NzIdle /\ WxIdle /\ EmIdle
    /\ \E n \in 0..MaxEvents : \E f \in [1..n -> RowAttrs] : de_match = MakeRows(n, f)
    /\ filtered_initial = <<>> /\ idx = 1
    /\ sequences = <<>> /\ current = NoSeq /\ seq_counter = 1
    /\ seq_ids = <<>> /\ included_idx = <<>>
    /\ off_run_included = 0 /\ off_run_excluded = 0
    /\ seg_pc = "load"

\* filter out on_ball_engagement, sort by (frame_start, frame_end)
SegLoad ==
    /\ seg_pc = "load"
    /\ filtered_initial' = SortRows(FilterRows(de_match))
    /\ seg_pc' = "loop"
    /\ UNCHANGED <<de_match, idx, sequences, current, seq_counter, seq_ids,
                   included_idx, off_run_included, off_run_excluded>>
    /\ UNCHANGED <<fxVars, rsVars, nzVars, wxVars, emVars>>

\* one iteration of `for idx, row in filtered_initial.iterrows()`
SegStep ==
    /\ seg_pc = "loop"
    /\ idx <= Len(filtered_initial)
    /\ LET row == filtered_initial[idx] IN
         IF current = NoSeq THEN
              /\ current' = NewSequence(seq_counter, row)
              /\ seq_ids' = Append(seq_ids, seq_counter)
              /\ included_idx' = Append(included_idx, idx)
              /\ seq_counter' = NextCounter(seq_counter)
              /\ off_run_included' = off_run_included + OffRun(row)
              /\ UNCHANGED <<sequences, off_run_excluded>>
         ELSE IF IsExcluded(row, current) THEN
              /\ off_run_excluded' = off_run_excluded + 1
              /\ UNCHANGED <<sequences, current, seq_counter, seq_ids,
                             included_idx, off_run_included>>
         ELSE IF SameTeam(row, current) THEN
              /\ current' = [current EXCEPT !.events = Append(@, MakeEvent(row))]
              /\ seq_ids' = Append(seq_ids, current.sequence_id)
              /\ included_idx' = Append(included_idx, idx)
              /\ off_run_included' = off_run_included + OffRun(row)
              /\ UNCHANGED <<sequences, seq_counter, off_run_excluded>>
         ELSE
              /\ sequences' = Append(sequences, current)
              /\ current' = NewSequence(seq_counter, row)
              /\ seq_ids' = Append(seq_ids, seq_counter)
              /\ included_idx' = Append(included_idx, idx)
              /\ seq_counter' = NextCounter(seq_counter)
              /\ off_run_included' = off_run_included + OffRun(row)
              /\ UNCHANGED off_run_excluded
    /\ idx' = idx + 1
    /\ UNCHANGED <<de_match, filtered_initial, seg_pc>>
    /\ UNCHANGED <<fxVars, rsVars, nzVars, wxVars, emVars>>

\* the loop is over: flush the open sequence
SegFinish ==
    /\ seg_pc = "loop"
    /\ idx > Len(filtered_initial)
    /\ sequences' = FlushCurrent(sequences, current)
    /\ seg_pc' = "done"
    /\ UNCHANGED <<de_match, filtered_initial, idx, current, seq_counter, seq_ids,
                   included_idx, off_run_included, off_run_excluded>>
    /\ UNCHANGED <<fxVars, rsVars, nzVars, wxVars, emVars>>

SegNext == SegLoad \/ SegStep \/ SegFinish

SpecSeg == SegInit /\ [][SegNext]_vars

(***************************************************************************)
(* Python values.  A value is a tagged record, so that None, numbers,      *)
(* numeric strings and other strings can sit in the same field.  A float   *)
(* or the text of a numeric string is held in tenths: PFloat(15) is 1.5,   *)
(* PNumStr(20) is the string "2", PNumStr(25) is the string "2.5".         *)
(***************************************************************************)
Absent == [t |-> "absent", v |-> 0]     \* the key is not in the dict
PNone == [t |-> "None", v |-> 0]
PInt(n) == [t |-> "int", v |-> n]
PFloat(tenths) == [t |-> "float", v |-> tenths]
PNumStr(tenths) == [t |-> "numstr", v |-> tenths]
PBadStr == [t |-> "str", v |-> 0]       \* a string that is no number
PDict == [t |-> "dict", v |-> 0]        \* some dict, where a number is expected

\* truncation toward zero of a value held in tenths
Trunc10(tenths) ==
    IF tenths >= 0 THEN tenths \div 10 ELSE -((-tenths) \div 10)

\* int(x) succeeds
IntOk(x) ==
    \/ x.t = "int"
    \/ x.t = "float"
    \/ x.t = "numstr" /\ x.v % 10 = 0

\* float(x) succeeds
FloatOk(x) == x.t \in {"int", "float", "numstr"}

\* try: int(x)  except: try: int(float(x))  except: None
IntOrNone(x) ==
    IF IntOk(x) THEN PInt(IF x.t = "int" THEN x.v ELSE Trunc10(x.v))
    ELSE IF FloatOk(x) THEN PInt(Trunc10(x.v))
    ELSE PNone

(***************************************************************************)
(* Frame-set extractor.                                                    *)
(***************************************************************************)
StartKeys == <<"frame_start", "start_frame", "start", "frame">>

EndKeys == <<"frame_end", "end_frame", "end">>

EventKeys == {"frame_start", "start_frame", "start", "frame",
              "frame_end", "end_frame", "end"}

\* what a frame field of a stored event may hold
FieldVals == {Absent, PNone, PInt(1), PInt(2), PInt(3), PFloat(15), PNumStr(25), PBadStr}

\* an event dict as the segmenter writes it: frame_start and frame_end,
\* none of the alternative key names
EventDict(start, end) ==
    [k \in EventKeys |->
        IF k = "frame_start" THEN start ELSE IF k = "frame_end" THEN end ELSE Absent]

FxEvents == {EventDict(fs, fe) : fs \in FieldVals, fe \in FieldVals}

\* shape of the `sequence` argument: a dict with an events list, None,
\* a dict without 'events', a dict whose 'events' is no list
SeqShapes == {"ok", "none", "no_events_key", "events_not_list"}

\* _get_int_from_event_field: the first key that is present and not None
\* decides; its value is parsed, or None is returned
GetIntFromEventField(event, keys) ==
    LET hit == {i \in 1..Len(keys) : event[keys[i]].t \notin {"absent", "None"}}
    IN  IF hit = {} THEN PNone
        ELSE IntOrNone(event[keys[CHOOSE i \in hit : \A j \in hit : i <= j]])

\* sorted(frames)
RECURSIVE SortedList(_)
SortedList(S) ==
    IF S = {} THEN <<>>
    ELSE LET m == CHOOSE x \in S : \A y \in S : x <= y
         IN  <<m>> \o SortedList(S \ {m})

\* starts: the start of every event that has one
StartsOf(events) ==
    {GetIntFromEventField(events[i], StartKeys).v :
        i \in {j \in 1..Len(events) : GetIntFromEventField(events[j], StartKeys) # PNone}}

EndsOfAll(events) ==
    {GetIntFromEventField(events[i], EndKeys).v :
        i \in {j \in 1..Len(events) : GetIntFromEventField(events[j], EndKeys) # PNone}}

\* last_end: the end of the last event, as a set of at most one frame
LastEndOf(events) ==
    IF Len(events) > 0 /\ GetIntFromEventField(events[Len(events)], EndKeys) # PNone
    THEN {GetIntFromEventField(events[Len(events)], EndKeys).v}
    ELSE {}

extract_frame_numbers_from_sequence(sequence) ==
    IF sequence.shape # "ok" THEN <<>>
    ELSE SortedList(StartsOf(sequence.events) \cup LastEndOf(sequence.events))

FxInit ==
    /\ SegIdle /\ RsIdle /\ NzIdle /\ WxIdle /\ EmIdle
    /\ \E shape \in SeqShapes, n \in 0..MaxFxEvents :
        \E evs \in [1..n -> FxEvents] :
            /\ shape # "ok" => n = 0
            /\ fx_sequence = [shape |-> shape, events |-> evs]
    /\ fx_frames = <<>>
    /\ fx_pc = "call"

FxExtract ==
    /\ fx_pc = "call"
    /\ fx_frames' = extract_frame_numbers_from_sequence(fx_sequence)
    /\ fx_pc' = "done"
    /\ UNCHANGED <<fx_sequence, segVars, rsVars, nzVars, wxVars, emVars>>

FxNext == FxExtract

SpecFrames == FxInit /\ [][FxNext]_vars

(***************************************************************************)
(* Enrichment of the positions file with attacking_side.                   *)
(***************************************************************************)
\* seq['frames'] of the positions file: the frame set of the sequence's events
FramesOfSequence(seq) ==
    extract_frame_numbers_from_sequence(
        [shape |-> "ok",
         events |-> [k \in 1..Len(seq.events) |->
                        EventDict(PInt(seq.events[k].frame_start),
                                  PInt(seq.events[k].frame_end))]])

\* get_first_frame_from_sequence: frames[0]; the positions keys are the same
\* frames, so without frames there is no first frame
get_first_frame_from_sequence(seq) ==
    IF Len(FramesOfSequence(seq)) > 0 THEN PInt(FramesOfSequence(seq)[1]) ELSE PNone

\* df[df['frame_start_num'].astype(int) == int(first_frame)], in file order
MatchingRows(df, first_frame) ==
    SelectSeq(df, LAMBDA row : row.frame_start = first_frame)

\* attacking_val of one sequence
AttackingVal(df, seq) ==
    LET first_frame == get_first_frame_from_sequence(seq)
    IN  IF first_frame = PNone THEN "None"
        ELSE LET matches == MatchingRows(df, first_frame.v)
             IN  IF matches = <<>> THEN "None" ELSE matches[1].attacking_side

\* the loop over sequences: seq['attacking_side'] = attacking_val
EnrichSequences(df, seqs) ==
    [i \in 1..Len(seqs) |-> [seqs[i] EXCEPT !.attacking_side = AttackingVal(df, seqs[i])]]

\* enrich(): the events CSV is found and the file is rewritten, or it is not
\* found and the file stays as it is
SegEnrich ==
    /\ seg_pc = "done"
    /\ \E csv_found \in BOOLEAN :
          IF csv_found
          THEN /\ sequences' = EnrichSequences(de_match, sequences)
               /\ seg_pc' = "enriched"
          ELSE /\ seg_pc' = "aborted"
               /\ UNCHANGED sequences
    /\ UNCHANGED <<de_match, filtered_initial, idx, current, seq_counter, seq_ids,
                   included_idx, off_run_included, off_run_excluded>>
    /\ UNCHANGED <<fxVars, rsVars, nzVars, wxVars, emVars>>

EnrichNext == SegLoad \/ SegStep \/ SegFinish \/ SegEnrich

SpecEnrich == SegInit /\ [][EnrichNext]_vars

(***************************************************************************)
(* Tracking resolver: data.                                                *)
(***************************************************************************)
\* frames 1 and 2 may be requested; frame 3 is in the log and never requested
WantedFrames == {1, 2}

FrameKeys == <<"frame", "frame_idx", "frame_index">>

\* a nested ball object {x, y, z}; NoBall: the key is absent
Ball(x, y, z) == [t |-> "dict", x |-> x, y |-> y, z |-> z]
NoBall == [t |-> "absent", x |-> Absent, y |-> Absent, z |-> Absent]
EmptyBall == Ball(Absent, Absent, Absent)      \* the dict {}

\* one line of the log: `valid` is whether json.loads accepts it
Record(frame, frame_idx, ball_data, ball) ==
    [valid |-> TRUE, frame |-> frame, frame_idx |-> frame_idx, frame_index |-> Absent,
     ball_data |-> ball_data, ball |-> ball]

InvalidLine == [valid |-> FALSE, frame |-> Absent, frame_idx |-> Absent,
                frame_index |-> Absent, ball_data |-> NoBall, ball |-> NoBall]

\* the lines a log is made of
RecordPool ==
    { InvalidLine,
      \* {"frame": 1, "ball_data": {"x": 1.5, "y": 2, "z": 0.5}}
      Record(PInt(1), Absent, Ball(PFloat(15), PInt(2), PFloat(5)), NoBall),
      \* {"frame": 1, "ball_data": {"x": 3, "y": 4, "z": null}}
      Record(PInt(1), Absent, Ball(PInt(3), PInt(4), PNone), NoBall),
      \* {"frame": 2, "ball": {"x": "abc", "y": 5, "z": 1}}
      Record(PInt(2), Absent, NoBall, Ball(PBadStr, PInt(5), PInt(1))),
      \* {"frame": null, "frame_idx": 2, "ball_data": {"x": 7, "y": 8, "z": 9}}
      Record(PNone, PInt(2), Ball(PInt(7), PInt(8), PInt(9)), NoBall),
      \* {"frame": 2, "ball_data": {}, "ball": {"x": 1, "y": 2, "z": 3}}
      Record(PInt(2), Absent, EmptyBall, Ball(PInt(1), PInt(2), PInt(3))),
      \* {"frame": 3, "ball_data": {"x": 6, "y": 6, "z": 6}}
      Record(PInt(3), Absent, Ball(PInt(6), PInt(6), PInt(6)), NoBall),
      \* {"frame": "1.5"}
      Record(PNumStr(15), Absent, NoBall, NoBall),
      \* {"ball_data": {"x": 1, "y": 1, "z": 1}}
      Record(Absent, Absent, Ball(PInt(1), PInt(1), PInt(1)), NoBall) }

\* (None, None, None)
Sentinel == <<PNone, PNone, PNone>>

(***************************************************************************)
(* Tracking resolver: the pieces of one scan step.                         *)
(***************************************************************************)
\* pandas parses the whole source at once: one bad line fails the read
AllLinesValid(log) == \A k \in 1..Len(log) : log[k].valid

\* the source can be loaded: open() / pd.read_json succeeds
Readable(impl, ok, log) ==
    IF impl = "local" THEN ok ELSE ok /\ AllLinesValid(log)

\* the key test of the frame lookup:
\*   local file:   if k in obj
\*   DataFrame:    if k in obj and pd.notnull(obj[k])
KeyHit(impl, x) ==
    IF impl = "local" THEN x.t # "absent" ELSE x.t \notin {"absent", "None"}

\* frame: the first key that passes the test decides (break)
RecordFrame(impl, rec) ==
    LET hit == {i \in 1..Len(FrameKeys) : KeyHit(impl, rec[FrameKeys[i]])}
    IN  IF hit = {} THEN PNone
        ELSE IntOrNone(rec[FrameKeys[CHOOSE i \in hit : \A j \in hit : i <= j]])

\* _safe_float
SafeFloat(x) ==
    IF x.t = "int" THEN PFloat(10 * x.v)
    ELSE IF x.t \in {"float", "numstr"} THEN PFloat(x.v)
    ELSE PNone

BallOfEither(rec) ==
    IF rec.ball_data.t = "dict" /\ rec.ball_data # EmptyBall
    THEN <<SafeFloat(rec.ball_data.x), SafeFloat(rec.ball_data.y), SafeFloat(rec.ball_data.z)>>
    ELSE IF rec.ball.t = "dict"
    THEN <<SafeFloat(rec.ball.x), SafeFloat(rec.ball.y), SafeFloat(rec.ball.z)>>
    ELSE Sentinel

\* (bx, by, bz) of a record
BallPosition(rec) ==
    IF rec.ball_data.t = "dict"
    THEN <<SafeFloat(rec.ball_data.x), SafeFloat(rec.ball_data.y), SafeFloat(rec.ball_data.z)>>
    ELSE IF rec.ball.t = "dict"
    THEN <<SafeFloat(rec.ball.x), SafeFloat(rec.ball.y), SafeFloat(rec.ball.z)>>
    ELSE Sentinel

KeepFirst(results, frame, pos) ==
    IF frame \in DOMAIN results THEN results
    ELSE [f \in DOMAIN results \cup {frame} |-> IF f = frame THEN pos ELSE results[f]]

\* results[frame] = (bx, by, bz)
StoreResult(results, frame, pos) ==
    [f \in DOMAIN results \cup {frame} |-> IF f = frame THEN pos ELSE results[f]]

\* the early exit:  found == wanted   /   len(results) == len(wanted)
AllFound(impl, results, found, wanted) ==
    IF impl = "df" THEN Cardinality(DOMAIN results) = Cardinality(wanted)
    ELSE found = wanted

NoFill(results, wanted) == results

\* for f in wanted: if f not in results: results[f] = (None, None, None)
FillMissing(results, wanted) ==
    [f \in DOMAIN results \cup wanted |->
        IF f \in DOMAIN results THEN results[f] ELSE Sentinel]

\* a record the scan passes over: a line that does not parse (local file), no
\* frame, or a frame that was not asked for
Skipped(impl, rec, wanted) ==
    \/ ~rec.valid
    \/ RecordFrame(impl, rec) = PNone
    \/ RecordFrame(impl, rec).v \notin wanted

\* the scan loop from record i on, up to the early exit or the end of the log
RECURSIVE ScanFrom(_, _, _, _, _, _)
ScanFrom(impl, log, wanted, i, results, found) ==
    IF i > Len(log) THEN results
    ELSE IF Skipped(impl, log[i], wanted)
    THEN ScanFrom(impl, log, wanted, i + 1, results, found)
    ELSE LET frame == RecordFrame(impl, log[i]).v
             res == StoreResult(results, frame, BallPosition(log[i]))
             fnd == found \cup {frame}
         IN  IF AllFound(impl, res, fnd, wanted) THEN res
             ELSE ScanFrom(impl, log, wanted, i + 1, res, fnd)

\* what a call of the resolver comes to: how it ends and the mapping it
\* returns
ResolvePositions(impl, ok, log, wanted) ==
    IF Readable(impl, ok, log)
    THEN [pc |-> "done",
          results |-> FillMissing(ScanFrom(impl, log, wanted, 1, <<>>, {}), wanted)]
    ELSE IF impl = "local" THEN [pc |-> "raised", results |-> <<>>]
    ELSE IF impl = "url" THEN [pc |-> "done", results |-> [f \in wanted |-> Sentinel]]
    ELSE [pc |-> "none", results |-> <<>>]

(***************************************************************************)
(* Tracking resolver: actions.                                             *)
(***************************************************************************)
RsInit ==
    /\ SegIdle /\ FxIdle /\ NzIdle /\ WxIdle /\ EmIdle
    /\ rs_impl \in {"local", "url", "df"}
    /\ rs_source_ok \in BOOLEAN
    /\ \E n \in 0..MaxLog : rs_log \in [1..n -> RecordPool]
    /\ rs_source_ok = FALSE => rs_log = <<>>
    /\ rs_wanted \in SUBSET WantedFrames
    /\ rs_results = <<>> /\ rs_found = {}
    /\ rs_i = 1
    /\ rs_pc = "open"

\* load the source
\*   local file: open(tracking_path) is not guarded, a missing file raises
\*   URL:        a failed pd.read_json is caught, every wanted frame is
\*               marked missing and returned
\*   DataFrame:  extract_ball_positions_for_match catches a failed
\*               pd.read_json and returns None
RsOpen ==
    /\ rs_pc = "open"
    /\ IF Readable(rs_impl, rs_source_ok, rs_log)
       THEN rs_pc' = "scan" /\ UNCHANGED rs_results
       ELSE IF rs_impl = "local" THEN rs_pc' = "raised" /\ UNCHANGED rs_results
       ELSE IF rs_impl = "url"
            THEN rs_pc' = "done" /\ rs_results' = [f \in rs_wanted |-> Sentinel]
            ELSE rs_pc' = "none" /\ UNCHANGED rs_results
    /\ UNCHANGED <<rs_impl, rs_source_ok, rs_log, rs_wanted, rs_found, rs_i>>
    /\ UNCHANGED <<segVars, fxVars, nzVars, wxVars, emVars>>

\* one iteration of the scan loop
RsScan ==
    /\ rs_pc = "scan"
    /\ rs_i <= Len(rs_log)
    /\ LET rec == rs_log[rs_i] IN
         IF Skipped(rs_impl, rec, rs_wanted)
         THEN /\ rs_i' = rs_i + 1
              /\ UNCHANGED <<rs_results, rs_found, rs_pc>>
         ELSE LET frame == RecordFrame(rs_impl, rec).v
                  res == StoreResult(rs_results, frame, BallPosition(rec))
                  fnd == rs_found \cup {frame}
              IN  /\ rs_results' = res
                  /\ rs_found' = fnd
                  /\ rs_i' = rs_i + 1
                  /\ rs_pc' = IF AllFound(rs_impl, res, fnd, rs_wanted)
                              THEN "fill" ELSE "scan"
    /\ UNCHANGED <<rs_impl, rs_source_ok, rs_log, rs_wanted>>
    /\ UNCHANGED <<segVars, fxVars, nzVars, wxVars, emVars>>

\* the log is exhausted
RsEndOfLog ==
    /\ rs_pc = "scan"
    /\ rs_i > Len(rs_log)
    /\ rs_pc' = "fill"
    /\ UNCHANGED <<rs_impl, rs_source_ok, rs_log, rs_wanted, rs_results, rs_found, rs_i>>
    /\ UNCHANGED <<segVars, fxVars, nzVars, wxVars, emVars>>

\* mark the missing frames and return
RsFill ==
    /\ rs_pc = "fill"
    /\ rs_results' = FillMissing(rs_results, rs_wanted)
    /\ rs_pc' = "done"
    /\ UNCHANGED <<rs_impl, rs_source_ok, rs_log, rs_wanted, rs_found, rs_i>>
    /\ UNCHANGED <<segVars, fxVars, nzVars, wxVars, emVars>>

RsNext == RsOpen \/ RsScan \/ RsEndOfLog \/ RsFill

SpecResolve == RsInit /\ [][RsNext]_vars

(***************************************************************************)
(* Orientation normalizer.                                                 *)
(***************************************************************************)
\* the value of sequence.get('attacking_side'); "None" is a missing label
SideLabels == {"None", "left_to_right", "right_to_left", "unknown"}

\* the frames a positions map may be keyed by
NzFrames == 1..MaxNzFrames

\* the coordinate lists a positions map may hold
CoordPool ==
    { <<PFloat(15), PFloat(-20), PFloat(5)>>,     \* [1.5, -2.0, 0.5]
      <<PFloat(30), PFloat(0), PNone>>,           \* [3.0, 0.0, null]
      <<PFloat(10), PFloat(20)>>,                 \* [1.0, 2.0]
      <<PNone, PNone, PNone>>,                    \* [null, null, null]
      <<PFloat(15), PNone, PFloat(5)>>,           \* [1.5, null, 0.5]
      <<PNone, PFloat(-20), PFloat(5)>>,          \* [null, -2.0, 0.5]
      <<PFloat(10)>>,                             \* [1.0]
      <<>> }                                      \* []

AlwaysFlip(attacking_side) == TRUE

FlipUnlessLeftToRight(attacking_side) == attacking_side # "left_to_right"

\* should_flip_coordinates
should_flip_coordinates(attacking_side) == attacking_side = "right_to_left"

\* -v raises TypeError unless v is a number
NegRaises(v) == v.t # "float"

flip_x_coordinate(x) == PFloat(0 - x.v)

KeepCoordinate(y) == y

flip_y_coordinate(y) == PFloat(0 - y.v)

\* the flip of one coordinate list raises
FlipRaises(coords) ==
    Len(coords) >= 2 /\ (NegRaises(coords[1]) \/ NegRaises(coords[2]))

\* the body of the loop over sequence['positions'].items()
FlipCoords(coords) ==
    IF Len(coords) >= 2
    THEN LET z == IF Len(coords) > 2 THEN coords[3] ELSE PNone
             xy == <<flip_x_coordinate(coords[1]), flip_y_coordinate(coords[2])>>
         IN  IF z # PNone THEN Append(xy, z) ELSE xy
    ELSE coords

\* normalize_sequence_positions: whether it raises, and what it returns
normalize_raises(sequence) ==
    /\ sequence.attacking_side # "None"
    /\ should_flip_coordinates(sequence.attacking_side)
    /\ \E f \in DOMAIN sequence.positions : FlipRaises(sequence.positions[f])

FlipWhenAbsent(sequence) ==
    IF sequence.attacking_side \in {"None", "right_to_left"}
    THEN [sequence EXCEPT
            !.positions = [f \in DOMAIN sequence.positions |->
                              IF FlipRaises(sequence.positions[f])
                              THEN sequence.positions[f]
                              ELSE FlipCoords(sequence.positions[f])],
            !.normalized = "True"]
    ELSE [sequence EXCEPT !.normalized = "False"]

\* the dicts the call works on: the caller's, under "sequence", and the one
\* it returns. A write to normalized_sequence reaches the caller's dict when
\* both names hold the same object.
SameObject(ref) == ref

\* normalized_sequence = sequence.copy(): a new dict
CopyOf(ref) == "normalized_sequence"

normalize_sequence_positions(sequence) ==
    IF sequence.attacking_side = "None" THEN sequence
    ELSE IF should_flip_coordinates(sequence.attacking_side)
    THEN [sequence EXCEPT
            !.positions = [f \in DOMAIN sequence.positions |->
                              FlipCoords(sequence.positions[f])],
            !.normalized = "True"]
    ELSE [sequence EXCEPT !.normalized = "False"]

\* the dicts after the call: every assignment went to normalized_sequence,
\* none was made when the flip raised
DictsAfterNormalize(sequence) ==
    LET target == CopyOf("sequence")
        before == [ref \in {"sequence", target} |-> sequence]
    IN  IF normalize_raises(sequence) THEN before
        ELSE [before EXCEPT ![target] = normalize_sequence_positions(sequence)]

NzInit ==
    /\ SegIdle /\ FxIdle /\ RsIdle /\ WxIdle /\ EmIdle
    /\ \E side \in SideLabels, F \in SUBSET NzFrames :
        \E pos \in [F -> CoordPool] :
            nz_sequence = [attacking_side |-> side, positions |-> pos,
                           normalized |-> "absent"]
    /\ nz_caller_sequence = nz_sequence
    /\ nz_result = NoSequence
    /\ nz_pc = "call"
    /\ nz_again = NoSequence
    /\ nz_again_pc = "idle"

NzNormalize ==
    /\ nz_pc = "call"
    /\ IF normalize_raises(nz_sequence)
       THEN nz_pc' = "raised" /\ UNCHANGED nz_result
       ELSE nz_pc' = "done" /\ nz_result' = normalize_sequence_positions(nz_sequence)
    /\ nz_caller_sequence' = DictsAfterNormalize(nz_sequence)["sequence"]
    /\ UNCHANGED <<nz_sequence, nz_again, nz_again_pc, segVars, fxVars, rsVars, wxVars, emVars>>

\* normalize_sequence_positions applied to its own output
NzNormalizeAgain ==
    /\ nz_pc = "done"
    /\ nz_again_pc = "idle"
    /\ IF normalize_raises(nz_result)
       THEN nz_again_pc' = "raised" /\ UNCHANGED nz_again
       ELSE nz_again_pc' = "done" /\ nz_again' = normalize_sequence_positions(nz_result)
    /\ UNCHANGED <<nz_sequence, nz_caller_sequence, nz_result, nz_pc, segVars, fxVars, rsVars, wxVars, emVars>>

NzNext == NzNormalize \/ NzNormalizeAgain

SpecNorm == NzInit /\ [][NzNext]_vars

(***************************************************************************)
(* Window extractor: data.                                                 *)
(***************************************************************************)
\* the values of fixed_num_positions
WindowLengths == {1, 2}

\* the frames of a sequence are 1..n, in ascending order
WxFrameLists == {[k \in 1..n |-> k] : n \in 0..MaxWxFrames}

\* str(n)
Digits == <<"0", "1", "2", "3", "4", "5", "6", "7", "8", "9">>

Str(n) == Digits[n + 1]

\* the ball's position at a frame; its z is null on odd frames
WxBall(frame) ==
    <<PFloat(10 * frame), PFloat(0 - 5 * frame),
      IF frame % 2 = 0 THEN PFloat(5) ELSE PNone>>

\* the positions maps of a frame list, keyed by str(frame): the frames of
\* missing were not found and hold the sentinel, the frames of absent have
\* no entry
WxPositionsOf(frames) ==
    LET frameset == {frames[k] : k \in 1..Len(frames)}
        frameOf(key) == CHOOSE frame \in frameset : Str(frame) = key
    IN  UNION { { [key \in {Str(frame) : frame \in frameset \ absent} |->
                     IF frameOf(key) \in missing THEN Sentinel
                     ELSE WxBall(frameOf(key))] :
                  missing \in SUBSET (frameset \ absent) } :
                absent \in SUBSET frameset }

\* one entry of the positions JSON
WxSequence(seq_id, side, frames, pos) ==
    [sequence_id |-> seq_id, attacking_side |-> side, frames |-> frames,
     positions |-> pos, normalized |-> "absent"]

WxSequencesOf(seq_id) ==
    UNION { {WxSequence(seq_id, side, frames, pos) : pos \in WxPositionsOf(frames)} :
              side \in SideLabels, frames \in WxFrameLists }

\* the positions JSON of one match: one or two sequences
WxFirstSequences == WxSequencesOf(1)

WxSecondSequences == WxSequencesOf(2)

WxInputs ==
    {<<s1>> : s1 \in WxFirstSequences} \cup
    { <<pair[1], pair[2]>> :
        pair \in {p \in WxFirstSequences \X WxSecondSequences :
                    Len(p[1].frames) + Len(p[2].frames) <= MaxWxPairFrames} }

\* the match the sequences belong to
WxMatchId == 1

(***************************************************************************)
(* Window extractor: the pieces of one loop iteration.                     *)
(***************************************************************************)
\* the frame's position is in the map and has at least two axes
HasTwoAxes(normalized_positions, frame) ==
    /\ Str(frame) \in DOMAIN normalized_positions
    /\ Len(normalized_positions[Str(frame)]) >= 2

\* the dict built from one position: x and y, and z unless it is None
Coord(coords) ==
    [x |-> coords[1], y |-> coords[2],
     z |-> IF Len(coords) > 2 /\ coords[3] # PNone THEN coords[3] ELSE Absent]

\* all_frames_in_order and all_coords after the loop over frames
AllFramesInOrder(frames, normalized_positions) ==
    SelectSeq(frames, LAMBDA frame : HasTwoAxes(normalized_positions, frame))

AllCoords(frames, normalized_positions) ==
    LET kept == AllFramesInOrder(frames, normalized_positions)
    IN  [k \in 1..Len(kept) |-> Coord(normalized_positions[Str(kept[k])])]

\* json.dumps of one value and of a list of coordinate dicts
JNull == [t |-> "null", v |-> 0]

JsonValue(v) ==
    IF v = PNone THEN JNull
    ELSE IF v = Absent THEN Absent
    ELSE [t |-> "number", v |-> v.v]

JsonDumps(coords_list) ==
    [k \in 1..Len(coords_list) |->
        [x |-> JsonValue(coords_list[k].x), y |-> JsonValue(coords_list[k].y),
         z |-> JsonValue(coords_list[k].z)]]

PrefixSlice(lst, start_idx, end_idx) ==
    SubSeq(lst, 1, IF end_idx < Len(lst) THEN end_idx ELSE Len(lst))

\* lst[start_idx:end_idx], for 0 <= start_idx <= end_idx
Slice(lst, start_idx, end_idx) ==
    LET hi == IF end_idx < Len(lst) THEN end_idx ELSE Len(lst)
    IN  IF start_idx >= hi THEN <<>> ELSE SubSeq(lst, start_idx + 1, hi)

\* len(all_coords) // fixed_num_positions
CeilSubsets(all_coords, fixed_num_positions) ==
    (Len(all_coords) + fixed_num_positions - 1) \div fixed_num_positions

NumSubsets(all_coords, fixed_num_positions) == Len(all_coords) \div fixed_num_positions

\* final_seq_id: the id itself, or f"{seq_id}_subset{subset_idx}"
PStr(text) == [t |-> "str", v |-> text]

UnsuffixedSeqId(seq_id, num_subsets, subset_idx) == PInt(seq_id)

FinalSeqId(seq_id, num_subsets, subset_idx) ==
    IF num_subsets = 1 THEN PInt(seq_id)
    ELSE PStr(Str(seq_id) \o "_subset" \o Str(subset_idx))

\* normalized_seq.get('normalized', False)
NormalizedFlag(normalized_seq) == normalized_seq.normalized = "True"

\* the rows one sequence adds to extracted_sequences
WindowsOf(sequence, normalized_seq, fixed_num_positions, match_id) ==
    LET all_coords == AllCoords(sequence.frames, normalized_seq.positions)
        num_subsets == NumSubsets(all_coords, fixed_num_positions)
    IN  IF Len(all_coords) >= fixed_num_positions
        THEN [k \in 1..num_subsets |->
                [match_id |-> match_id,
                 sequence_id |-> FinalSeqId(sequence.sequence_id, num_subsets, k - 1),
                 attacking_side |-> sequence.attacking_side,
                 normalized |-> NormalizedFlag(normalized_seq),
                 num_positions |-> fixed_num_positions,
                 coordinates_json |->
                     JsonDumps(Slice(all_coords, (k - 1) * fixed_num_positions,
                                     (k - 1) * fixed_num_positions + fixed_num_positions))]]
        ELSE <<>>

WholeSequenceRanges(sequence, normalized_seq, fixed_num_positions, match_id) ==
    LET all_frames == AllFramesInOrder(sequence.frames, normalized_seq.positions)
        num_subsets == NumSubsets(all_frames, fixed_num_positions)
    IN  IF Len(all_frames) >= fixed_num_positions
        THEN [k \in 1..num_subsets |->
                [match_id |-> match_id,
                 sequence_id |-> FinalSeqId(sequence.sequence_id, num_subsets, k - 1),
                 start_frame |-> all_frames[1],
                 end_frame |-> all_frames[Len(all_frames)]]]
        ELSE <<>>

\* the rows one sequence adds to frame_ranges
FrameRangesOf(sequence, normalized_seq, fixed_num_positions, match_id) ==
    LET all_frames == AllFramesInOrder(sequence.frames, normalized_seq.positions)
        num_subsets == NumSubsets(all_frames, fixed_num_positions)
        subset_frames(k) == Slice(all_frames, (k - 1) * fixed_num_positions,
                                  (k - 1) * fixed_num_positions + fixed_num_positions)
        row(k) == [match_id |-> match_id,
                   sequence_id |-> FinalSeqId(sequence.sequence_id, num_subsets, k - 1),
                   start_frame |-> subset_frames(k)[1],
                   end_frame |-> subset_frames(k)[Len(subset_frames(k))]]
        \* if subset_frames: an empty slice adds no row
        with_frames == SelectSeq([k \in 1..num_subsets |-> k],
                                 LAMBDA k : subset_frames(k) # <<>>)
    IN  IF Len(all_frames) >= fixed_num_positions
        THEN [i \in 1..Len(with_frames) |-> row(with_frames[i])]
        ELSE <<>>

(***************************************************************************)
(* The frame-range table as the website export reads it back.              *)
(***************************************************************************)
\* the text of a sequence_id cell
SeqIdText(sequence_id) ==
    IF sequence_id.t = "int" THEN Str(sequence_id.v) ELSE sequence_id.v

\* f"{row['match_id']}_{row['sequence_id']}"
LookupKey(row) == Str(row.match_id) \o "_" \o SeqIdText(row.sequence_id)

\* load_frames_lookup: a later row with the same key replaces the earlier
load_frames_lookup(rows) ==
    [key \in {LookupKey(rows[r]) : r \in 1..Len(rows)} |->
        LET last == CHOOSE r \in 1..Len(rows) :
                        /\ LookupKey(rows[r]) = key
                        /\ \A q \in 1..Len(rows) : LookupKey(rows[q]) = key => q <= r
        IN  [start |-> rows[last].start_frame, end |-> rows[last].end_frame]]

(***************************************************************************)
(* Window extractor: actions.                                              *)
(***************************************************************************)
WxInit ==
    /\ SegIdle /\ FxIdle /\ RsIdle /\ NzIdle /\ EmIdle
    /\ wx_sequences \in WxInputs
    /\ wx_caller_sequences = wx_sequences
    /\ wx_N \in WindowLengths
    /\ wx_j = 1
    /\ wx_normalized_seq = NoSequence
    /\ wx_all_coords = <<>>
    /\ wx_extracted = <<>>
    /\ wx_frame_ranges = <<>>
    /\ wx_pc = "loop"

\* one iteration of the loop over sequences, with return_frame_ranges = True
WxStep ==
    /\ wx_pc = "loop"
    /\ wx_j <= Len(wx_sequences)
    /\ LET sequence == wx_sequences[wx_j]
       IN  IF Len(sequence.frames) < wx_N
           THEN /\ wx_j' = wx_j + 1
                /\ UNCHANGED <<wx_caller_sequences, wx_normalized_seq, wx_all_coords,
                               wx_extracted, wx_frame_ranges, wx_pc>>
           ELSE IF normalize_raises(sequence)
           THEN /\ wx_pc' = "raised"
                /\ UNCHANGED <<wx_caller_sequences, wx_j, wx_normalized_seq,
                               wx_all_coords, wx_extracted, wx_frame_ranges>>
           ELSE LET normalized_seq == normalize_sequence_positions(sequence)
                IN  /\ wx_caller_sequences' =
                          [wx_caller_sequences EXCEPT
                              ![wx_j] = DictsAfterNormalize(sequence)["sequence"]]
                    /\ wx_normalized_seq' = normalized_seq
                    /\ wx_all_coords' = AllCoords(sequence.frames, normalized_seq.positions)
                    /\ wx_extracted' = wx_extracted \o
                          WindowsOf(sequence, normalized_seq, wx_N, WxMatchId)
                    /\ wx_frame_ranges' = wx_frame_ranges \o
                          FrameRangesOf(sequence, normalized_seq, wx_N, WxMatchId)
                    /\ wx_j' = wx_j + 1
                    /\ UNCHANGED wx_pc
    /\ UNCHANGED <<wx_sequences, wx_N, segVars, fxVars, rsVars, nzVars, emVars>>

\* the loop is over: return extracted_sequences, frame_ranges
WxReturn ==
    /\ wx_pc = "loop"
    /\ wx_j > Len(wx_sequences)
    /\ wx_pc' = "done"
    /\ UNCHANGED <<wx_sequences, wx_caller_sequences, wx_N, wx_j, wx_normalized_seq,
                   wx_all_coords, wx_extracted, wx_frame_ranges>>
    /\ UNCHANGED <<segVars, fxVars, rsVars, nzVars, emVars>>

WxNext == WxStep \/ WxReturn

SpecWin == WxInit /\ [][WxNext]_vars

\* a call of either function that takes sequence dicts from its caller
CallerInit == NzInit \/ WxInit

CallerNext == NzNormalize \/ NzNormalizeAgain \/ WxStep \/ WxReturn

SpecCaller == CallerInit /\ [][CallerNext]_vars

(***************************************************************************)
(* Export of all matches: extract_ball_coordinates.                        *)
(***************************************************************************)
\* extract_sequences_with_n_positions as one call, from sequence j on: the
\* rows and frame ranges it returns, or the exception of the normalizer
RECURSIVE ExtractFrom(_, _, _, _, _, _)
ExtractFrom(seqs, fixed_num_positions, match_id, j, extracted, frame_ranges) ==
    IF j > Len(seqs)
    THEN [raised |-> FALSE, extracted |-> extracted, frame_ranges |-> frame_ranges]
    ELSE IF Len(seqs[j].frames) < fixed_num_positions
    THEN ExtractFrom(seqs, fixed_num_positions, match_id, j + 1, extracted, frame_ranges)
    ELSE IF normalize_raises(seqs[j])
    THEN [raised |-> TRUE, extracted |-> extracted, frame_ranges |-> frame_ranges]
    ELSE LET normalized_seq == normalize_sequence_positions(seqs[j])
         IN  ExtractFrom(seqs, fixed_num_positions, match_id, j + 1,
                 extracted \o WindowsOf(seqs[j], normalized_seq, fixed_num_positions, match_id),
                 frame_ranges \o FrameRangesOf(seqs[j], normalized_seq, fixed_num_positions, match_id))

extract_sequences_with_n_positions(seqs, fixed_num_positions, match_id) ==
    ExtractFrom(seqs, fixed_num_positions, match_id, 1, <<>>, <<>>)

\* a positions file: it does not exist, json.load fails on it, or it holds
\* the sequences of the match
MissingFile == [status |-> "missing", sequences |-> <<>>]

UnloadableFile == [status |-> "unloadable", sequences |-> <<>>]

LoadedFile(seqs) == [status |-> "loaded", sequences |-> seqs]

\* the positions of frames 1 and 2, all found or frame 1 not found
EmFrames == <<1, 2>>

EmPositions ==
    { [key \in {Str(1), Str(2)} |-> IF key = Str(1) THEN first ELSE WxBall(2)] :
        first \in {WxBall(1), Sentinel} }

EmFiles ==
    {MissingFile, UnloadableFile, LoadedFile(<<>>)} \cup
    { LoadedFile(<<WxSequence(1, side, EmFrames, pos)>>) :
        side \in {"left_to_right", "right_to_left"}, pos \in EmPositions }

AbortOnUnloadable(file, fixed_num_events, match_id) ==
    IF file.status = "missing"
    THEN [raised |-> FALSE, extracted |-> <<>>, frame_ranges |-> <<>>]
    ELSE IF file.status = "unloadable"
    THEN [raised |-> TRUE, extracted |-> <<>>, frame_ranges |-> <<>>]
    ELSE extract_sequences_with_n_positions(file.sequences, fixed_num_events, match_id)

\* what one match adds: nothing when its file is missing or does not load
\* (continue), else what the window extractor returns for its sequences
ProcessMatch(file, fixed_num_events, match_id) ==
    IF file.status \in {"missing", "unloadable"}
    THEN [raised |-> FALSE, extracted |-> <<>>, frame_ranges |-> <<>>]
    ELSE extract_sequences_with_n_positions(file.sequences, fixed_num_events, match_id)

\* extract_ball_coordinates as one call, from match i on
RECURSIVE CoordinatesFrom(_, _, _, _, _, _)
CoordinatesFrom(match_ids, files, fixed_num_events, i, all_data, frame_ranges) ==
    IF i > Len(match_ids)
    THEN [pc |-> IF all_data # <<>> THEN "saved" ELSE "none",
          all_data |-> all_data, frame_ranges |-> frame_ranges]
    ELSE LET out == ProcessMatch(files[match_ids[i]], fixed_num_events, match_ids[i])
         IN  IF out.raised
             THEN [pc |-> "raised", all_data |-> all_data, frame_ranges |-> frame_ranges]
             ELSE IF out.extracted # <<>>
             THEN CoordinatesFrom(match_ids, files, fixed_num_events, i + 1,
                                  all_data \o out.extracted,
                                  frame_ranges \o out.frame_ranges)
             ELSE CoordinatesFrom(match_ids, files, fixed_num_events, i + 1,
                                  all_data, frame_ranges)

extract_ball_coordinates(match_ids, files, fixed_num_events) ==
    CoordinatesFrom(match_ids, files, fixed_num_events, 1, <<>>, <<>>)

EmInit ==
    /\ SegIdle /\ FxIdle /\ RsIdle /\ NzIdle /\ WxIdle
    /\ \E n \in 0..MaxMatches :
          /\ em_match_ids = [k \in 1..n |-> k]
          /\ em_files \in [1..n -> EmFiles]
    /\ em_N \in WindowLengths
    /\ em_i = 1
    /\ em_all_data = <<>>
    /\ em_frame_ranges = <<>>
    /\ em_pc = "loop"

\* one iteration of the loop over match_ids
EmStep ==
    /\ em_pc = "loop"
    /\ em_i <= Len(em_match_ids)
    /\ LET match_id == em_match_ids[em_i]
           out == ProcessMatch(em_files[match_id], em_N, match_id)
       IN  IF out.raised
           THEN /\ em_pc' = "raised"
                /\ UNCHANGED <<em_i, em_all_data, em_frame_ranges>>
           ELSE /\ em_i' = em_i + 1
                /\ UNCHANGED em_pc
                /\ IF out.extracted # <<>>
                   THEN /\ em_all_data' = em_all_data \o out.extracted
                        /\ em_frame_ranges' = em_frame_ranges \o out.frame_ranges
                   ELSE UNCHANGED <<em_all_data, em_frame_ranges>>
    /\ UNCHANGED <<em_match_ids, em_files, em_N>>
    /\ UNCHANGED <<segVars, fxVars, rsVars, nzVars, wxVars>>

\* the loop is over: the tables are written when all_data is not empty
EmSave ==
    /\ em_pc = "loop"
    /\ em_i > Len(em_match_ids)
    /\ em_pc' = IF em_all_data # <<>> THEN "saved" ELSE "none"
    /\ UNCHANGED <<em_match_ids, em_files, em_N, em_i, em_all_data, em_frame_ranges>>
    /\ UNCHANGED <<segVars, fxVars, rsVars, nzVars, wxVars>>

EmNext == EmStep \/ EmSave

SpecMatches == EmInit /\ [][EmNext]_vars

(***************************************************************************)
(* Segmenter: what the claims speak about.                                 *)
(***************************************************************************)
\* The rows left once cross-team off-ball events are removed: the first row
\* is kept, and an off_ball_run of another team than the last kept row's
\* (the team of the sequence then open) is dropped.
RECURSIVE RetainedAfter(_, _)
RetainedAfter(rows, team) ==
    IF rows = <<>> THEN <<>>
    ELSE LET r == Head(rows) IN
         IF r.event_type = "off_ball_run" /\ r.team_id # team
         THEN RetainedAfter(Tail(rows), team)
         ELSE <<r>> \o RetainedAfter(Tail(rows), r.team_id)

Retained(rows) ==
    IF rows = <<>> THEN <<>>
    ELSE <<Head(rows)>> \o RetainedAfter(Tail(rows), Head(rows).team_id)

\* team-transition boundaries between consecutive rows
Boundaries(rows) ==
    Cardinality({i \in 1..(Len(rows) - 1) : rows[i].team_id # rows[i + 1].team_id})

RowIds(rows) == {rows[i].event_id : i \in 1..Len(rows)}

\* every sequence the segmenter holds: the emitted ones and the open one
AllSeqs ==
    {sequences[i] : i \in 1..Len(sequences)} \cup
    (IF current # NoSeq THEN {current} ELSE {})

StoredIds ==
    UNION {{s.events[k].event_id : k \in 1..Len(s.events)} : s \in AllSeqs}

Visited == SubSeq(filtered_initial, 1, idx - 1)

\* the event ids the exclusion rule dropped among the rows visited so far
DroppedIds == RowIds(Visited) \ RowIds(Retained(Visited))

\* place of a stored event in the sorted stream
PosOf(ev) == CHOOSE p \in 1..Len(filtered_initial) : filtered_initial[p].event_id = ev.event_id

\* C1 as stated: for every stream, the empty one included, the number of
\* sequences emitted is the number of team-transition boundaries between
\* consecutive retained events plus one.
C1_AllStreams ==
    seg_pc = "done" =>
        Len(sequences) = Boundaries(Retained(filtered_initial)) + 1

\* C1 amended: for every non-empty filtered stream the number of sequences
\* emitted is the number of team-transition boundaries between consecutive
\* retained events plus one; the empty stream emits no sequence.
C1_NonEmptyStreams ==
    seg_pc = "done" =>
        IF filtered_initial = <<>>
        THEN Len(sequences) = 0
        ELSE Len(sequences) = Boundaries(Retained(filtered_initial)) + 1

C1_Witness ==
    /\ seg_pc = "done"
    /\ Len(sequences) >= 2
    /\ off_run_excluded >= 1

\* the row the loop is about to visit is an off_ball_run of another team
\* than the open sequence's
AtCrossTeamOffBall ==
    /\ seg_pc = "loop"
    /\ idx <= Len(filtered_initial)
    /\ current # NoSeq
    /\ filtered_initial[idx].event_type = "off_ball_run"
    /\ filtered_initial[idx].team_id # current.team_id

\* C2: an off_ball_run whose team differs from the open sequence's team is
\* stored in no sequence, at its step or later, raises the excluded counter
\* by exactly one, and neither closes the open sequence nor opens a new one.
C2_CrossTeamOffBallExcluded ==
    [][ /\ AtCrossTeamOffBall =>
            /\ off_run_excluded' = off_run_excluded + 1
            /\ current' = current
            /\ sequences' = sequences
            /\ seq_counter' = seq_counter
        /\ (DroppedIds \cap StoredIds = {})'
        /\ (off_run_excluded = Cardinality(DroppedIds))' ]_vars

C2_Witness ==
    /\ seg_pc = "done"
    /\ off_run_excluded >= 1
    /\ \E i \in 1..Len(sequences) : Len(sequences[i].events) >= 2

\* C3: the emitted sequences carry the ids 1, 2, ..., k in emission order,
\* no id is reused or skipped, and the sequences are in the order of their
\* first events in the sorted stream.
C3_DenseIdsInOrder ==
    /\ \A i \in 1..Len(sequences) : sequences[i].sequence_id = i
    /\ (seg_pc = "loop" /\ current # NoSeq) =>
            /\ current.sequence_id = Len(sequences) + 1
            /\ seq_counter = Len(sequences) + 2
    /\ (seg_pc = "loop" /\ current = NoSeq) => seq_counter = 1
    /\ seg_pc = "done" => seq_counter = Len(sequences) + 1
    /\ \A i, j \in 1..Len(sequences) :
            i < j => PosOf(sequences[i].events[1]) < PosOf(sequences[j].events[1])

C3_Witness ==
    /\ seg_pc = "done"
    /\ Len(sequences) = 3

\* C4: in every state, every event stored in a sequence, open or emitted,
\* comes from a row of that sequence's team.
C4_TeamHomogeneous ==
    \A s \in AllSeqs : \A k \in 1..Len(s.events) :
        de_match[s.events[k].event_id].team_id = s.team_id

C4_Witness ==
    /\ seg_pc = "done"
    /\ Len(sequences) >= 2
    /\ \E i \in 1..Len(sequences) : Len(sequences[i].events) >= 2

\* the rows of the file that are on_ball_engagement events, by event_id
OnBallIds ==
    {de_match[i].event_id : i \in {k \in 1..Len(de_match) :
                                      de_match[k].event_type = "on_ball_engagement"}}

\* the file without its on_ball_engagement rows, in segmentation order
WithoutOnBall ==
    SortRows(SelectSeq(de_match, LAMBDA row : row.event_type # "on_ball_engagement"))

\* the event ids of the emitted sequences, one after the other
RECURSIVE EmittedIds(_)
EmittedIds(seqs) ==
    IF seqs = <<>> THEN <<>>
    ELSE [k \in 1..Len(Head(seqs).events) |-> Head(seqs).events[k].event_id]
            \o EmittedIds(Tail(seqs))

\* C20: no on_ball_engagement row is stored in a sequence; the sequences
\* emitted are the ones the file gives with those rows deleted, so such a row
\* neither opens nor closes a sequence; and the included and excluded
\* off-ball tallies count off_ball_run rows only.
C20_OnBallEngagementFilteredOut ==
    /\ StoredIds \cap OnBallIds = {}
    /\ seg_pc \in {"loop", "done"} => RowIds(filtered_initial) \cap OnBallIds = {}
    /\ seg_pc = "done" =>
          LET expected == Retained(WithoutOnBall)
          IN  /\ Len(sequences) = IF expected = <<>> THEN 0
                                  ELSE Boundaries(expected) + 1
              /\ EmittedIds(sequences) =
                    [k \in 1..Len(expected) |-> expected[k].event_id]
    /\ seg_pc = "done" =>
          /\ off_run_included + off_run_excluded =
                Cardinality({k \in 1..Len(de_match) :
                                de_match[k].event_type = "off_ball_run"})
          /\ off_run_included =
                Cardinality({id \in StoredIds : de_match[id].event_type = "off_ball_run"})

\* two possessions of team 1 with an on_ball_engagement of team 2 between
\* them ended up in one sequence
C20_Witness ==
    /\ seg_pc = "done"
    /\ Len(de_match) = 3
    /\ de_match[1].event_type = "player_possession" /\ de_match[1].team_id = 1
    /\ de_match[2].event_type = "on_ball_engagement" /\ de_match[2].team_id = 2
    /\ de_match[3].event_type = "player_possession" /\ de_match[3].team_id = 1
    /\ de_match[1].frame_start = 1 /\ de_match[2].frame_start = 1
    /\ de_match[3].frame_start = 2
    /\ Len(sequences) = 1
    /\ EmittedIds(sequences) = <<1, 3>>

\* C21: the attacking_side of a sequence is the attacking_side of its first
\* stored event, the event that seeded it, while the segmenter runs, when it
\* has finished, and after enrich() has rewritten the file.
C21_SideOfSeedingEvent ==
    \A s \in AllSeqs :
        s.attacking_side = de_match[s.events[1].event_id].attacking_side

\* how often an event id occurs in a list of ids
Occurrences(ids, id) == Cardinality({k \in 1..Len(ids) : ids[k] = id})

\* C23: when the segmenter has finished, every row of the filtered stream
\* is either an excluded off-ball event, counted as such, or is stored exactly
\* once in an emitted sequence, the sequence still open at the end included;
\* the event lists of the sequences, taken in sequence_id order, are the
\* retained rows in stream order; and the number of included events plus
\* the number of excluded ones is the length of the filtered stream.
C23_NoRetainedEventLost ==
    seg_pc = "done" =>
        LET emitted == EmittedIds(sequences)
            retained == Retained(filtered_initial)
        IN  /\ \A i \in 1..Len(sequences) : sequences[i].sequence_id = i
            /\ emitted = [k \in 1..Len(retained) |-> retained[k].event_id]
            /\ \A p \in 1..Len(filtered_initial) :
                  LET id == filtered_initial[p].event_id
                  IN  IF id \in DroppedIds
                      THEN Occurrences(emitted, id) = 0
                      ELSE Occurrences(emitted, id) = 1
            /\ off_run_excluded = Cardinality(DroppedIds)
            /\ Len(included_idx) = Len(emitted)
            /\ Len(included_idx) + off_run_excluded = Len(filtered_initial)

\* three rows were segmented: one was excluded, and the other two are in two
\* sequences, the second flushed at the end
C23_Witness ==
    /\ seg_pc = "done"
    /\ Len(filtered_initial) = 3
    /\ off_run_excluded = 1
    /\ Len(sequences) = 2
    /\ Len(included_idx) = 2
    /\ EmittedIds(sequences) = <<filtered_initial[1].event_id, filtered_initial[3].event_id>>

(***************************************************************************)
(* Frame-set extractor: what the claims speak about.                       *)
(***************************************************************************)
\* the integer a field value stands for, when it stands for one
Parseable(x) == x.t \in {"int", "float", "numstr"}

FrameOf(x) == IF x.t = "int" THEN x.v ELSE Trunc10(x.v)

FxInputEvents == fx_sequence.events

\* every event's parseable frame_start, and the last event's frame_end
ExpectedFrames ==
    {FrameOf(FxInputEvents[i]["frame_start"]) :
        i \in {j \in 1..Len(FxInputEvents) : Parseable(FxInputEvents[j]["frame_start"])}}
    \cup
    {FrameOf(FxInputEvents[i]["frame_end"]) :
        i \in {j \in 1..Len(FxInputEvents) :
                 j = Len(FxInputEvents) /\ Parseable(FxInputEvents[j]["frame_end"])}}

\* C5: the extractor returns, strictly ascending and without duplicates,
\* exactly every event's parseable frame_start plus the last event's
\* frame_end; missing or unparseable values contribute nothing (not 0), an
\* earlier frame_end is there only when it is one of those values, and an
\* empty or absent event list gives the empty list.
C5_StartsPlusLastEnd ==
    fx_pc = "done" =>
        /\ \A i, j \in 1..Len(fx_frames) : i < j => fx_frames[i] < fx_frames[j]
        /\ {fx_frames[i] : i \in 1..Len(fx_frames)} = ExpectedFrames
        /\ (fx_sequence.shape # "ok" \/ FxInputEvents = <<>>) => fx_frames = <<>>

\* two events: the first has an unparseable start and an end that is left
\* out, the second gives a start and the terminal end
C5_Witness ==
    /\ fx_pc = "done"
    /\ Len(FxInputEvents) = 2
    /\ FxInputEvents[1]["frame_start"] = PBadStr
    /\ FxInputEvents[1]["frame_end"] = PInt(1)
    /\ FxInputEvents[2]["frame_start"] = PNumStr(25)
    /\ FxInputEvents[2]["frame_end"] = PInt(3)
    /\ fx_frames = <<2, 3>>

(***************************************************************************)
(* Tracking resolver: what the claims speak about.                         *)
(***************************************************************************)
\* the resolver returned a mapping
RsReturned == rs_pc = "done"

\* the records the scan has read
Scanned == 1..(rs_i - 1)

\* the records of the log that are records for frame f
RecordsFor(f) ==
    {k \in 1..Len(rs_log) :
        /\ rs_log[k].valid
        /\ RecordFrame(rs_impl, rs_log[k]) = PInt(f)}

First(K) == CHOOSE k \in K : \A j \in K : k <= j

Last(K) == CHOOSE k \in K : \A j \in K : k >= j

\* C6: for a readable log, the keys of the result are exactly the requested
\* frames, and a requested frame of which the scan saw no record maps to
\* (None, None, None).
C6_KeysAreWanted ==
    (RsReturned /\ Readable(rs_impl, rs_source_ok, rs_log)) =>
        /\ DOMAIN rs_results = rs_wanted
        /\ \A f \in rs_wanted :
              RecordsFor(f) \cap Scanned = {} => rs_results[f] = Sentinel

\* the log holds frame 1 and not frame 2, both are requested
C6_Witness ==
    /\ RsReturned
    /\ Readable(rs_impl, rs_source_ok, rs_log)
    /\ rs_wanted = {1, 2}
    /\ RecordsFor(1) # {} /\ RecordsFor(2) = {}
    /\ rs_results[1] # Sentinel
    /\ rs_results[2] = Sentinel

\* C7: with a missing local file or a failed fetch, load_tracking_positions
\* does not raise and returns every requested frame mapped to
\* (None, None, None).
C7_UnreadableGivesSentinels ==
    (rs_impl \in {"local", "url"} /\ ~rs_source_ok /\ rs_pc # "open") =>
        /\ RsReturned
        /\ rs_results = [f \in rs_wanted |-> Sentinel]

\* C8 as stated: of several records for a requested frame, the first in
\* scan order gives the returned Position.
C8_FirstRecordWins ==
    (RsReturned /\ Readable(rs_impl, rs_source_ok, rs_log)) =>
        \A f \in rs_wanted :
            Cardinality(RecordsFor(f)) >= 2 =>
                rs_results[f] = BallPosition(rs_log[First(RecordsFor(f))])

\* C8 amended: of several records for a requested frame, the last one read
\* before the scan stops gives the returned Position; it is the first one
\* when every other requested frame has a record before it, so that the
\* scan stops there.
C8_LastScannedRecordWins ==
    (RsReturned /\ Readable(rs_impl, rs_source_ok, rs_log)) =>
        \A f \in rs_wanted :
            Cardinality(RecordsFor(f)) >= 2 =>
                /\ RecordsFor(f) \cap Scanned # {}
                /\ rs_results[f] = BallPosition(rs_log[Last(RecordsFor(f) \cap Scanned)])
                /\ (\A g \in rs_wanted \ {f} :
                        /\ RecordsFor(g) # {}
                        /\ First(RecordsFor(g)) < First(RecordsFor(f)))
                   => rs_results[f] = BallPosition(rs_log[First(RecordsFor(f))])

\* two records of frame 1 with different positions were read before the
\* record of frame 2 ended the scan
C8_Witness ==
    /\ RsReturned
    /\ rs_wanted = {1, 2}
    /\ Readable(rs_impl, rs_source_ok, rs_log)
    /\ Cardinality(RecordsFor(1) \cap Scanned) >= 2
    /\ RecordsFor(2) # {}
    /\ First(RecordsFor(1)) < First(RecordsFor(2))
    /\ BallPosition(rs_log[First(RecordsFor(1))])
          # BallPosition(rs_log[Last(RecordsFor(1) \cap Scanned)])
    /\ rs_results[1] = BallPosition(rs_log[Last(RecordsFor(1) \cap Scanned)])

\* the scan reads the next record of the log
ExaminesRecord == rs_pc = "scan" /\ rs_i' = rs_i + 1

\* every requested frame has a position
AllResolved == rs_wanted \subseteq DOMAIN rs_results

\* C22: the scan stops as soon as every requested frame is resolved: a
\* record is read only while some requested frame is still outstanding, so
\* none is read after the record that resolves the last one, and none at all
\* when no frame is requested.
C22_ScanStopsWhenAllResolved ==
    [][ ExaminesRecord => ~AllResolved ]_vars

\* the first of frame, frame_idx, frame_index that carries a value
CarriesValue(x) == x.t \notin {"absent", "None"}

ValuedFrame(rec) ==
    LET valued == {i \in 1..Len(FrameKeys) : CarriesValue(rec[FrameKeys[i]])}
    IN  IF valued = {} THEN PNone
        ELSE IntOrNone(rec[FrameKeys[CHOOSE i \in valued : \A j \in valued : i <= j]])

\* a record whose preferred field is present without a value and whose next
\* candidate field holds frame f
NullPreferred(rec, f) ==
    /\ rec.valid
    /\ rec.frame = PNone
    /\ rec.frame_idx = PInt(f)

\* C24: in every resolver, a record read by the scan whose frame field is
\* null and whose frame_idx holds a requested frame is resolved through
\* frame_idx: when it is the only record read for that frame, the frame maps
\* to the ball position of that record.
C24_NullFieldFallsThrough ==
    (RsReturned /\ Readable(rs_impl, rs_source_ok, rs_log)) =>
        \A f \in rs_wanted : \A k \in Scanned :
            (/\ NullPreferred(rs_log[k], f)
             /\ \A j \in Scanned \ {k} :
                    ~(rs_log[j].valid /\ ValuedFrame(rs_log[j]) = PInt(f)))
            => rs_results[f] = BallPosition(rs_log[k])

\* the call has ended
RsEnded == rs_pc \in {"done", "raised", "none"}

\* the log without its record k
WithoutRecord(log, k) ==
    [j \in 1..(Len(log) - 1) |-> IF j < k THEN log[j] ELSE log[j + 1]]

\* a record that cannot be parsed: an invalid line, or no frame index that
\* parses
Unparseable(rec) == ~rec.valid \/ ValuedFrame(rec) = PNone

\* C25: a record that cannot be parsed is skipped without aborting the scan:
\* the call ends as it ends for the same log without that record, with the
\* same mapping.
C25_UnparseableRecordIsSkipped ==
    (RsEnded /\ rs_source_ok) =>
        /\ [pc |-> rs_pc, results |-> rs_results]
              = ResolvePositions(rs_impl, rs_source_ok, rs_log, rs_wanted)
        /\ \A k \in 1..Len(rs_log) :
              Unparseable(rs_log[k]) =>
                  ResolvePositions(rs_impl, rs_source_ok, WithoutRecord(rs_log, k), rs_wanted)
                      = [pc |-> rs_pc, results |-> rs_results]

\* a ball axis as a float, None when it is absent or does not parse
Coerced(x) ==
    IF x.t = "int" THEN PFloat(10 * x.v)
    ELSE IF x.t \in {"float", "numstr"} THEN PFloat(x.v)
    ELSE PNone

IsObject(b) == b.t = "dict"

\* C26: the position stored for a requested frame is read from the ball_data
\* of its record when that is an object, whatever axes it holds, otherwise
\* from ball when that is an object, each axis coerced on its own; a record
\* with neither object gives (None, None, None).
C26_BallDataBeforeBall ==
    (RsReturned /\ Readable(rs_impl, rs_source_ok, rs_log)) =>
        \A f \in rs_wanted :
            RecordsFor(f) \cap Scanned # {} =>
                LET rec == rs_log[Last(RecordsFor(f) \cap Scanned)]
                    pos == rs_results[f]
                IN  /\ Len(pos) = 3
                    /\ IsObject(rec.ball_data) =>
                          /\ pos[1] = Coerced(rec.ball_data.x)
                          /\ pos[2] = Coerced(rec.ball_data.y)
                          /\ pos[3] = Coerced(rec.ball_data.z)
                    /\ (~IsObject(rec.ball_data) /\ IsObject(rec.ball)) =>
                          /\ pos[1] = Coerced(rec.ball.x)
                          /\ pos[2] = Coerced(rec.ball.y)
                          /\ pos[3] = Coerced(rec.ball.z)
                    /\ (~IsObject(rec.ball_data) /\ ~IsObject(rec.ball)) =>
                          pos = Sentinel

\* frame 2 was resolved from a record whose ball_data is {} and whose ball
\* holds three numbers, frame 1 from a record with numbers in ball_data
C26_Witness ==
    /\ RsReturned
    /\ Readable(rs_impl, rs_source_ok, rs_log)
    /\ rs_wanted = {1, 2}
    /\ RecordsFor(1) \cap Scanned # {}
    /\ RecordsFor(2) \cap Scanned # {}
    /\ LET rec == rs_log[Last(RecordsFor(2) \cap Scanned)]
       IN  /\ rec.ball_data = EmptyBall
           /\ IsObject(rec.ball)
           /\ Coerced(rec.ball.x) # PNone
    /\ rs_results[2] = Sentinel
    /\ rs_results[1] # Sentinel

\* C28: for every log of tracking records and every requested set, the
\* local-file resolver and the DataFrame resolver return the same mapping:
\* whichever of the two ran, its result is the result of both.
C28_LocalEqualsDataframe ==
    (RsEnded /\ rs_source_ok /\ AllLinesValid(rs_log) /\ rs_impl \in {"local", "df"}) =>
        /\ [pc |-> rs_pc, results |-> rs_results]
              = ResolvePositions("local", rs_source_ok, rs_log, rs_wanted)
        /\ [pc |-> rs_pc, results |-> rs_results]
              = ResolvePositions("df", rs_source_ok, rs_log, rs_wanted)

(***************************************************************************)
(* Orientation normalizer: what the claims speak about.                    *)
(***************************************************************************)
IsNumber(v) == v.t = "float"

Negated(v) == [t |-> "float", v |-> 0 - v.v]

NzPositions == nz_sequence.positions

\* x and y are both there
HasXY(coords) == Len(coords) >= 2 /\ IsNumber(coords[1]) /\ IsNumber(coords[2])

\* C9: for a right_to_left sequence whose positions all have x and y, the
\* normalizer returns the same frame keys, every x and y negated, and z
\* unchanged where there is one.
C9_FlipNegatesXY ==
    (/\ nz_pc # "call"
     /\ nz_sequence.attacking_side = "right_to_left"
     /\ \A f \in DOMAIN NzPositions : HasXY(NzPositions[f])) =>
        /\ nz_pc = "done"
        /\ DOMAIN nz_result.positions = DOMAIN NzPositions
        /\ \A f \in DOMAIN NzPositions :
              /\ nz_result.positions[f][1] = Negated(NzPositions[f][1])
              /\ nz_result.positions[f][2] = Negated(NzPositions[f][2])
              /\ (Len(NzPositions[f]) > 2 /\ NzPositions[f][3] # PNone) =>
                    /\ Len(nz_result.positions[f]) = 3
                    /\ nz_result.positions[f][3] = NzPositions[f][3]

\* two frames, one with z and one without, were flipped
C9_Witness ==
    /\ nz_pc = "done"
    /\ nz_sequence.attacking_side = "right_to_left"
    /\ DOMAIN NzPositions = {1, 2}
    /\ NzPositions[1] = <<PFloat(15), PFloat(-20), PFloat(5)>>
    /\ NzPositions[2] = <<PFloat(10), PFloat(20)>>
    /\ nz_result.positions[1] = <<PFloat(-15), PFloat(20), PFloat(5)>>

\* C10: for a right_to_left sequence, normalization completes without
\* error, and a position whose x or y is missing, the sentinel
\* [null, null, null] among them, stays in the map with its value unchanged.
C10_MissingXYPassedThrough ==
    (nz_pc # "call" /\ nz_sequence.attacking_side = "right_to_left") =>
        /\ nz_pc = "done"
        /\ \A f \in DOMAIN NzPositions :
              ~HasXY(NzPositions[f]) =>
                  /\ f \in DOMAIN nz_result.positions
                  /\ nz_result.positions[f] = NzPositions[f]

\* C16: normalizing a right_to_left sequence and then normalizing the
\* result returns the original position map: the same frame keys and, for
\* every frame, the same list, with as many axes and the same values, a
\* position whose z is missing included.
C16_DoubleFlipIsIdentity ==
    (nz_sequence.attacking_side = "right_to_left" /\ nz_again_pc = "done") =>
        /\ DOMAIN nz_again.positions = DOMAIN NzPositions
        /\ \A f \in DOMAIN NzPositions :
              /\ Len(nz_again.positions[f]) = Len(NzPositions[f])
              /\ nz_again.positions[f] = NzPositions[f]

\* C17: for a left_to_right sequence the normalizer returns the input
\* positions and normalized = false, and normalizing the result returns the
\* same sequence again.
C17_LeftToRightIsNoOp ==
    (nz_sequence.attacking_side = "left_to_right" /\ nz_pc # "call") =>
        /\ nz_pc = "done"
        /\ nz_result.attacking_side = "left_to_right"
        /\ nz_result.positions = NzPositions
        /\ nz_result.normalized = "False"
        /\ nz_again_pc # "idle" => (nz_again_pc = "done" /\ nz_again = nz_result)

\* a left_to_right sequence holding a position and the sentinel was
\* normalized twice
C17_Witness ==
    /\ nz_sequence.attacking_side = "left_to_right"
    /\ nz_again_pc = "done"
    /\ DOMAIN NzPositions = {1, 2}
    /\ NzPositions[1] = <<PFloat(15), PFloat(-20), PFloat(5)>>
    /\ NzPositions[2] = <<PNone, PNone, PNone>>
    /\ nz_again.positions = NzPositions

(***************************************************************************)
(* Window extractor: what the claims speak about.                          *)
(***************************************************************************)
\* the call returned its two tables
WxReturned == wx_pc = "done"

\* the coordinates of window w, as written to coordinates_json
WindowCoords(w) == wx_extracted[w].coordinates_json

\* the identities a window of sequence seq_id can carry
IdentitiesOf(seq_id) ==
    {PInt(seq_id)} \cup
    {PStr(Str(seq_id) \o "_subset" \o Str(k)) : k \in 0..MaxWxFrames}

\* the rows of the two tables that come from sequence seq_id
WindowsFrom(seq_id) ==
    {w \in 1..Len(wx_extracted) : wx_extracted[w].sequence_id \in IdentitiesOf(seq_id)}

RangesFrom(seq_id) ==
    {r \in 1..Len(wx_frame_ranges) : wx_frame_ranges[r].sequence_id \in IdentitiesOf(seq_id)}

\* the frames of a sequence whose stored position has an x and a y
ResolvableFrames(sequence) ==
    {k \in 1..Len(sequence.frames) :
        /\ Str(sequence.frames[k]) \in DOMAIN sequence.positions
        /\ HasXY(sequence.positions[Str(sequence.frames[k])])}

\* C11: no window holds a coordinate whose x or y is missing; a frame that
\* was resolved to the sentinel contributes to no window.
C11_NoMissingXYInWindow ==
    \A w \in 1..Len(wx_extracted) :
        \A k \in 1..Len(WindowCoords(w)) :
            WindowCoords(w)[k].x # JNull /\ WindowCoords(w)[k].y # JNull

\* C12: a sequence with fewer than N frames that have an x and a y (the
\* sentinel frames not counted) has no row in the window table and no row in
\* the frame-range table, however many frames it lists.
C12_FewResolvableNoWindow ==
    WxReturned =>
        \A j \in 1..Len(wx_sequences) :
            Cardinality(ResolvableFrames(wx_sequences[j])) < wx_N =>
                /\ WindowsFrom(wx_sequences[j].sequence_id) = {}
                /\ RangesFrom(wx_sequences[j].sequence_id) = {}

\* an iteration that went past the frame-count test and the normalizer
WxExtracted ==
    /\ wx_pc = "loop" /\ wx_pc' = "loop"
    /\ wx_j' = wx_j + 1
    /\ Len(wx_sequences[wx_j].frames) >= wx_N

\* the rows the iteration appended to extracted_sequences
AddedWindows == SubSeq(wx_extracted', Len(wx_extracted) + 1, Len(wx_extracted'))

SourceOf(w) ==
    CHOOSE j \in 1..Len(wx_sequences) : w \in WindowsFrom(wx_sequences[j].sequence_id)

\* C14: the normalized flag of a normalized sequence, and of each window cut
\* from it, is true exactly when attacking_side is right_to_left; any other
\* label, and no label, gives false.
C14_NormalizedIffRightToLeft ==
    /\ (wx_normalized_seq.normalized = "True")
          <=> (wx_normalized_seq.attacking_side = "right_to_left")
    /\ \A w \in 1..Len(wx_extracted) :
          wx_extracted[w].normalized
              <=> (wx_sequences[SourceOf(w)].attacking_side = "right_to_left")

\* a right_to_left sequence and a sequence with another label each gave a
\* window: the first is flagged, the second is not
C14_Witness ==
    /\ WxReturned
    /\ Len(wx_sequences) = 2
    /\ wx_sequences[1].attacking_side = "right_to_left"
    /\ wx_sequences[2].attacking_side = "unknown"
    /\ WindowsFrom(1) # {} /\ WindowsFrom(2) # {}
    /\ \A w \in WindowsFrom(1) : wx_extracted[w].normalized
    /\ \A w \in WindowsFrom(2) : ~wx_extracted[w].normalized

\* the coordinate dicts the frames of a sequence give when nothing is flipped
UnflippedCoords(sequence) ==
    LET kept == SelectSeq(sequence.frames,
                          LAMBDA frame : /\ Str(frame) \in DOMAIN sequence.positions
                                         /\ Len(sequence.positions[Str(frame)]) >= 2)
    IN  [k \in 1..Len(kept) |->
            LET coords == sequence.positions[Str(kept[k])]
            IN  [x |-> IF coords[1] = PNone THEN JNull
                       ELSE [t |-> "number", v |-> coords[1].v],
                 y |-> IF coords[2] = PNone THEN JNull
                       ELSE [t |-> "number", v |-> coords[2].v],
                 z |-> IF Len(coords) > 2 /\ coords[3] # PNone
                       THEN [t |-> "number", v |-> coords[3].v] ELSE Absent]]

\* C15: for a sequence without attacking_side the normalizer returns every
\* position unchanged and no normalized = true; the windows cut from it carry
\* normalized = false and the coordinates as stored, not negated.
C15_AbsentSideLeftUntouched ==
    [][ (WxExtracted /\ wx_sequences[wx_j].attacking_side = "None") =>
           /\ wx_normalized_seq'.positions = wx_sequences[wx_j].positions
           /\ wx_normalized_seq'.normalized # "True"
           /\ \A k \in 1..Len(AddedWindows) :
                 /\ ~AddedWindows[k].normalized
                 /\ AddedWindows[k].coordinates_json =
                       SubSeq(UnflippedCoords(wx_sequences[wx_j]),
                              (k - 1) * wx_N + 1, k * wx_N) ]_vars

\* a sequence without attacking_side gave a window that starts at the ball's
\* position of frame 1, x = 1.0 and y = -0.5
C15_Witness ==
    /\ wx_j > 1
    /\ wx_sequences[1].attacking_side = "None"
    /\ WindowsFrom(1) # {}
    /\ wx_extracted[1].coordinates_json[1].x = [t |-> "number", v |-> 10]
    /\ wx_extracted[1].coordinates_json[1].y = [t |-> "number", v |-> 0 - 5]
    /\ ~wx_extracted[1].normalized

\* the frames of a sequence that have a position of two axes
KeptFramesOf(sequence) ==
    SelectSeq(sequence.frames,
              LAMBDA frame : /\ Str(frame) \in DOMAIN sequence.positions
                             /\ Len(sequence.positions[Str(frame)]) >= 2)

\* C18: a sequence that gives exactly one window gives it its own
\* sequence_id; a sequence that gives several gives window k the id
\* "<sequence_id>_subset<k>", k from 0.  The sequence_ids of a match being
\* distinct, no two windows of the match have the same identity, and the
\* frame lookup built from the frame-range table has one key per row.
C18_WindowIdentity ==
    /\ [][ WxExtracted =>
             /\ Len(AddedWindows) = 1 =>
                   AddedWindows[1].sequence_id = PInt(wx_sequences[wx_j].sequence_id)
             /\ Len(AddedWindows) > 1 =>
                   \A k \in 1..Len(AddedWindows) :
                       AddedWindows[k].sequence_id =
                           PStr(Str(wx_sequences[wx_j].sequence_id) \o "_subset"
                                  \o Str(k - 1)) ]_vars
    /\ [](\A v, w \in 1..Len(wx_extracted) :
             v # w => SeqIdText(wx_extracted[v].sequence_id)
                         # SeqIdText(wx_extracted[w].sequence_id))
    /\ [](Cardinality(DOMAIN load_frames_lookup(wx_frame_ranges)) = Len(wx_frame_ranges))

\* sequence 1 gave two windows and sequence 2 gave one
C18_Witness ==
    /\ WxReturned
    /\ Len(wx_extracted) = 3
    /\ wx_extracted[1].sequence_id = PStr("1_subset0")
    /\ wx_extracted[2].sequence_id = PStr("1_subset1")
    /\ wx_extracted[3].sequence_id = PInt(2)
    /\ DOMAIN load_frames_lookup(wx_frame_ranges) = {"1_1_subset0", "1_1_subset1", "1_2"}

\* the rows the iteration appended to frame_ranges
AddedRanges ==
    SubSeq(wx_frame_ranges', Len(wx_frame_ranges) + 1, Len(wx_frame_ranges'))

\* C19: the frame-range table has one row per window, in the same order and
\* with the same match_id and sequence_id, and the row holds the frames of
\* the window's first and last coordinate.
C19_FrameRangeRowPerWindow ==
    /\ [](Len(wx_frame_ranges) = Len(wx_extracted))
    /\ [](\A w \in 1..Len(wx_extracted) :
             /\ wx_frame_ranges[w].match_id = wx_extracted[w].match_id
             /\ wx_frame_ranges[w].sequence_id = wx_extracted[w].sequence_id)
    /\ [][ WxExtracted =>
             /\ Len(AddedRanges) = Len(AddedWindows)
             /\ \A k \in 1..Len(AddedWindows) :
                   LET kept == KeptFramesOf(wx_sequences[wx_j])
                       first == AddedWindows[k].coordinates_json[1]
                       last == AddedWindows[k].coordinates_json[wx_N]
                       xOf(coord) == IF coord.x.v < 0 THEN 0 - coord.x.v ELSE coord.x.v
                   IN  /\ AddedRanges[k].start_frame = kept[(k - 1) * wx_N + 1]
                       /\ AddedRanges[k].end_frame = kept[(k - 1) * wx_N + wx_N]
                       /\ first.x # JNull => xOf(first) = 10 * AddedRanges[k].start_frame
                       /\ last.x # JNull => xOf(last) = 10 * AddedRanges[k].end_frame ]_vars

\* frames 1..5 with no position for frame 2, N = 2: the windows span frames
\* 1-3 and 4-5
C19_Witness ==
    /\ WxReturned
    /\ wx_N = 2
    /\ Len(wx_frame_ranges) = 2
    /\ wx_frame_ranges[1].start_frame = 1 /\ wx_frame_ranges[1].end_frame = 3
    /\ wx_frame_ranges[2].start_frame = 4 /\ wx_frame_ranges[2].end_frame = 5
    /\ wx_frame_ranges[2].sequence_id = wx_extracted[2].sequence_id

\* the list is strictly ascending, as extract_frame_numbers_from_sequence
\* returns it
StrictlyAscending(frames) ==
    \A a, b \in 1..Len(frames) : a < b => frames[a] < frames[b]

\* C30: for a sequence whose frames are strictly ascending, the frame ranges
\* of its windows are ordered and do not overlap: start_frame <= end_frame in
\* every row, and the end_frame of a subset is below the start_frame of the
\* next.
C30_FrameRangesDoNotOverlap ==
    [][ (WxExtracted /\ StrictlyAscending(wx_sequences[wx_j].frames)) =>
           \A k \in 1..Len(AddedRanges) :
               /\ AddedRanges[k].start_frame <= AddedRanges[k].end_frame
               /\ k < Len(AddedRanges) =>
                     AddedRanges[k].end_frame < AddedRanges[k + 1].start_frame ]_vars

\* frames 1..5 with no position for frame 3, N = 2: the ranges are 1-2 and
\* 4-5
C30_Witness ==
    /\ WxReturned
    /\ wx_N = 2
    /\ Len(wx_sequences) = 1
    /\ Len(wx_frame_ranges) = 2
    /\ wx_frame_ranges[1].start_frame = 1 /\ wx_frame_ranges[1].end_frame = 2
    /\ wx_frame_ranges[2].start_frame = 4 /\ wx_frame_ranges[2].end_frame = 5

\* dict `after` has the positions of dict `before`, key by key, and no
\* normalized key
LeftUnchanged(before, after) ==
    /\ DOMAIN after.positions = DOMAIN before.positions
    /\ \A key \in DOMAIN before.positions : after.positions[key] = before.positions[key]
    /\ after.normalized = "absent"
    /\ after.attacking_side = before.attacking_side

\* C29: normalize_sequence_positions and extract_sequences_with_n_positions
\* leave the sequences they are given unchanged: after the call, raised or
\* not, the caller's dict has the positions it had and no normalized key,
\* whatever its attacking_side.
C29_InputLeftUnchanged ==
    /\ nz_pc \in {"done", "raised"} => LeftUnchanged(nz_sequence, nz_caller_sequence)
    /\ wx_pc \in {"loop", "done", "raised"} =>
          /\ Len(wx_caller_sequences) = Len(wx_sequences)
          /\ \A j \in 1..Len(wx_sequences) :
                LeftUnchanged(wx_sequences[j], wx_caller_sequences[j])

\* a right_to_left sequence was flipped into the returned dict
C29_Witness ==
    /\ nz_pc = "done"
    /\ nz_sequence.attacking_side = "right_to_left"
    /\ nz_result.normalized = "True"
    /\ nz_result.positions # nz_sequence.positions
    /\ nz_caller_sequence.positions = nz_sequence.positions

(***************************************************************************)
(* Export of all matches: what the claims speak about.                     *)
(***************************************************************************)
\* the call has ended
EmEnded == em_pc \in {"saved", "none", "raised"}

\* the positions file of the match is missing or does not load
Failing(match_id) == em_files[match_id].status \in {"missing", "unloadable"}

\* match_ids without its entry k
WithoutMatch(match_ids, k) ==
    [j \in 1..(Len(match_ids) - 1) |-> IF j < k THEN match_ids[j] ELSE match_ids[j + 1]]

\* C27: a match whose positions file is missing or does not load is skipped:
\* once the loop has passed it nothing was added for it, and the call ends
\* with the windows and frame ranges it gives for the same list without that
\* match.
C27_FailingMatchIsSkipped ==
    /\ \A k \in 1..Len(em_match_ids) :
          (k < em_i /\ Failing(em_match_ids[k])) =>
              /\ \A r \in 1..Len(em_all_data) : em_all_data[r].match_id # em_match_ids[k]
              /\ \A r \in 1..Len(em_frame_ranges) :
                    em_frame_ranges[r].match_id # em_match_ids[k]
    /\ EmEnded =>
          /\ extract_ball_coordinates(em_match_ids, em_files, em_N)
                = [pc |-> em_pc, all_data |-> em_all_data, frame_ranges |-> em_frame_ranges]
          /\ \A k \in 1..Len(em_match_ids) :
                Failing(em_match_ids[k]) =>
                    extract_ball_coordinates(WithoutMatch(em_match_ids, k), em_files, em_N)
                      = [pc |-> em_pc, all_data |-> em_all_data,
                         frame_ranges |-> em_frame_ranges]

\* the file of the first match does not load, the second match gave windows
C27_Witness ==
    /\ em_pc = "saved"
    /\ Len(em_match_ids) = 2
    /\ em_files[1] = UnloadableFile
    /\ em_all_data # <<>>
    /\ em_frame_ranges # <<>>
    /\ \A r \in 1..Len(em_all_data) : em_all_data[r].match_id = 2

====
